---- MODULE Spec2Model ----
(***************************************************************************)
(* TimeUsageTracker (src/src/tabpfn/model/time_tracker.py).                *)
(*                                                                         *)
(* The tracker holds three containers (active_segments,                    *)
(* completed_segments, _timers) and is used by caller threads and by the   *)
(* threads of the threading.Timer objects it schedules.  The code takes no *)
(* lock, so every operation is modelled as the sequence of its accesses to *)
(* shared state (one dict/list operation or one time.time() call per       *)
(* step); a caller thread's position inside an operation is pc[t].         *)
(*                                                                         *)
(* Time: clock is the reading of time.time(); Tick advances it and it      *)
(* never decreases.  A timer waits on its own event with a timeout         *)
(* (threading.Timer.run), not on time.time(): the end of that wait is the  *)
(* step timer_fire, which is not tied to a change of the reading, so the   *)
(* reading may be the same before and after a timer's interval (a clock    *)
(* coarser than the interval).                                             *)
(*                                                                         *)
(* generation / gen / about are history tags that name the incarnations of *)
(* a label, and stamps records the readings of time.time() that start and  *)
(* reset took; no modelled code reads them.                                *)
(***************************************************************************)
EXTENDS Integers, Sequences, FiniteSets, TLC

\* ---------------------------------------------------------------- bounds
Labels == {"a", "b"}
Threads == {1, 2}
MaxGen == 2        \* start / reset-while-active calls admitted in one run
MaxClock == 1      \* largest reading of time.time() (largest duration drawn)
MaxArgLen == 2     \* longest `labels` list handed to total_time
MaxRecords == 3    \* longest completed sequence drawn for total_time
MaxRows == 2       \* most rows of an input handed to fit_transform
MaxFeatures == 600 \* most features of an input handed to fit_transform

\* Optional[list[str]]: None, or Some(list)
None == <<>>
Some(list) == <<list>>

VARIABLES
    active_segments,    \* dict label -> start time
    completed_segments, \* list of <<label, duration>>
    timers,             \* dict label -> timer id           (self._timers)
    timerObjs,          \* timer id -> the threading.Timer object and its thread
    clock,              \* current reading of time.time()
    pc,                 \* caller thread -> position in its operation
    call,               \* caller thread -> its current / last call:
                        \*   [op, label, labels]
    res,                \* caller thread -> how its last call ended:
                        \*   [out, value]
    start_time,         \* caller thread -> local variable start_time
    gen,                \* caller thread -> tag of the incarnation it creates
    generation,         \* label -> tag of the stored start time
    ngen,               \* tags handed out so far
    stamps,             \* label -> readings taken for it by its last start
                        \*   and by every reset since, oldest first
    long_warnings,      \* long-running warnings emitted: [timer, label, about]
    reset_warnings,     \* number of "Resetting ..." warnings emitted
    append_to_original, \* ReshapeFeatureDistributionsStep.append_to_original
    X,                  \* shape <<rows, features>> of fit_transform's input
    Xt                  \* shape of fit_transform's output, None before the call

vars == <<active_segments, completed_segments, timers, timerObjs, clock, pc,
          call, res, start_time, gen, generation, ngen, stamps, long_warnings,
          reset_warnings, append_to_original, X, Xt>>

tracker == <<active_segments, completed_segments, timers>>
locals == <<start_time, gen>>
tags == <<generation, ngen, stamps>>
warned == <<long_warnings, reset_warnings>>
reshape == <<append_to_original, X, Xt>>

\* ------------------------------------------------------------- dict helpers
Has(d, k) == k \in DOMAIN d
Put(d, k, v) == [x \in DOMAIN d \cup {k} |-> IF x = k THEN v ELSE d[x]]
Del(d, k) == [x \in DOMAIN d \ {k} |-> d[x]]
Empty == <<>>

Range(s) == {s[i] : i \in DOMAIN s}

\* ------------------------------------------------------------ return values
Pending == "pending"
OK == "ok"
AlreadyActive == "RuntimeError: Segment is already active."
NotActive == "RuntimeError: No active segment found with label."
KeyError == "KeyError"

\* No preprocessing step is in use.
NoReshape ==
    /\ append_to_original = "auto"
    /\ X = <<0, 0>>
    /\ Xt = None

\* ---------------------------------------------------------------- __init__
Init ==
    /\ NoReshape
    /\ active_segments = Empty
    /\ completed_segments = <<>>
    /\ timers = Empty
    /\ timerObjs = Empty
    /\ clock = 0
    /\ pc = [t \in Threads |-> "idle"]
    /\ call = [t \in Threads |-> [op |-> "none", label |-> "", labels |-> None]]
    /\ res = [t \in Threads |-> [out |-> Pending, value |-> 0]]
    /\ start_time = [t \in Threads |-> 0]
    /\ gen = [t \in Threads |-> 0]
    /\ generation = Empty
    /\ ngen = 0
    /\ stamps = [l \in Labels |-> <<>>]
    /\ long_warnings = {}
    /\ reset_warnings = 0

\* ------------------------------------------------------------ call, return
\* The call of thread t ends with outcome r.
Return(t, r) ==
    /\ pc' = [pc EXCEPT ![t] = "idle"]
    /\ res' = [res EXCEPT ![t] = [out |-> r, value |-> 0]]

Goto(t, where) ==
    /\ pc' = [pc EXCEPT ![t] = where]
    /\ UNCHANGED res

Enter(t, op, label) ==
    call' = [call EXCEPT ![t] = [op |-> op, label |-> label, labels |-> None]]

\* ------------------------------------------------------- threading.Timer
\* threading.Timer(TIME_WARNING_CPU, self._warn_if_over_limit,
\*                 args=(label, start_time)); timer.start()
NewTimer(label, started) ==
    [label |-> label, start_time |-> started, st |-> "waiting", finished |-> FALSE]

\* A timer whose thread has ended, and how: "done" (cancel() ended its wait
\* and the function was never called, or the function returned) or KeyError
\* (the function raised).  Nothing reads its start_time argument any more.
Ended(timer, how) ==
    [label |-> timer.label, start_time |-> 0, st |-> how, finished |-> TRUE]

\* a cancel that does nothing
cancel_noop(objs, id) == objs

\* timer.cancel(): sets the timer's `finished` event.  A timer still waiting
\* never calls its function afterwards; one that has already begun to fire is
\* not stopped.
cancel(objs, id) ==
    IF objs[id].st = "waiting"
    THEN [objs EXCEPT ![id] = Ended(@, "done")]
    ELSE [objs EXCEPT ![id].finished = TRUE]

\* --------------------------------------------------------------- start
\* start without its test
start_rejects_unchecked(label) == FALSE

\* line 57: the test that rejects a start
start_rejects(label) == Has(active_segments, label)

\* a start that stores the new start time before it tests and raises
start_call_restamping(t, label) ==
    /\ pc[t] = "idle"
    /\ Enter(t, "start", label)
    /\ IF start_rejects(label)
       THEN /\ active_segments' = Put(active_segments, label, clock)
            /\ Return(t, AlreadyActive)
            /\ UNCHANGED <<gen, ngen>>
       ELSE /\ ngen < MaxGen
            /\ ngen' = ngen + 1
            /\ gen' = [gen EXCEPT ![t] = ngen + 1]
            /\ pc' = [pc EXCEPT ![t] = "start_time"]
            /\ res' = [res EXCEPT ![t] = [out |-> Pending, value |-> 0]]
            /\ UNCHANGED active_segments
    /\ UNCHANGED <<reshape, completed_segments, timers, timerObjs, clock, start_time,
                   generation, stamps, warned>>

\* lines 57-58: if label in self.active_segments: raise RuntimeError
start_call(t, label) ==
    /\ pc[t] = "idle"
    /\ Enter(t, "start", label)
    /\ IF start_rejects(label)
       THEN /\ Return(t, AlreadyActive)
            /\ UNCHANGED <<gen, ngen>>
       ELSE /\ ngen < MaxGen
            /\ ngen' = ngen + 1
            /\ gen' = [gen EXCEPT ![t] = ngen + 1]
            /\ pc' = [pc EXCEPT ![t] = "start_time"]
            /\ res' = [res EXCEPT ![t] = [out |-> Pending, value |-> 0]]
    /\ UNCHANGED <<reshape, tracker, timerObjs, clock, start_time, generation, stamps,
                   warned>>

\* line 59: start_time = time.time()
start_clock(t) ==
    /\ pc[t] = "start_time"
    /\ start_time' = [start_time EXCEPT ![t] = clock]
    /\ stamps' = [stamps EXCEPT ![call[t].label] = <<clock>>]
    /\ Goto(t, "start_set")
    /\ UNCHANGED <<reshape, tracker, timerObjs, clock, call, gen, generation, ngen,
                   warned>>

\* line 60: self.active_segments[label] = start_time
start_set(t) ==
    /\ pc[t] = "start_set"
    /\ active_segments' = Put(active_segments, call[t].label, start_time[t])
    /\ generation' = Put(generation, call[t].label, gen[t])
    /\ Goto(t, "start_timer")
    /\ UNCHANGED <<reshape, completed_segments, timers, timerObjs, clock, call, locals,
                   ngen, stamps, warned>>

\* lines 63-68: timer = threading.Timer(...); timer.start();
\*              self._timers[label] = timer
start_timer(t) ==
    /\ pc[t] = "start_timer"
    /\ timerObjs' = Put(timerObjs, gen[t], NewTimer(call[t].label, start_time[t]))
    /\ timers' = Put(timers, call[t].label, gen[t])
    /\ Return(t, OK)
    /\ UNCHANGED <<reshape, active_segments, completed_segments, clock, call, locals,
                   tags, warned>>

\* ---------------------------------------------------------------- stop
\* stop without its test
stop_rejects_unchecked(label) == FALSE

\* line 76: the test that rejects a stop
stop_rejects(label) == ~Has(active_segments, label)

\* the operands of the subtraction exchanged
elapsed_swapped(now, started) == started - now

\* line 84: time.time() - start_time
elapsed(now, started) == now - started

\* lines 76-77: if label not in self.active_segments: raise RuntimeError
stop_call(t, label) ==
    /\ pc[t] = "idle"
    /\ Enter(t, "stop", label)
    /\ IF stop_rejects(label)
       THEN Return(t, NotActive)
       ELSE /\ pc' = [pc EXCEPT ![t] = "stop_pop"]
            /\ res' = [res EXCEPT ![t] = [out |-> Pending, value |-> 0]]
    /\ UNCHANGED <<reshape, tracker, timerObjs, clock, locals, tags, warned>>

\* line 79: start_time = self.active_segments.pop(label)
stop_pop(t) ==
    /\ pc[t] = "stop_pop"
    /\ IF Has(active_segments, call[t].label)
       THEN /\ start_time' = [start_time EXCEPT ![t] = active_segments[call[t].label]]
            /\ active_segments' = Del(active_segments, call[t].label)
            /\ generation' = Del(generation, call[t].label)
            /\ Goto(t, "stop_timer")
       ELSE /\ Return(t, KeyError)
            /\ UNCHANGED <<active_segments, generation, start_time>>
    /\ UNCHANGED <<reshape, completed_segments, timers, timerObjs, clock, call, gen,
                   ngen, stamps, warned>>

\* line 81: if label in self._timers
stop_timer(t) ==
    /\ pc[t] = "stop_timer"
    /\ Goto(t, IF Has(timers, call[t].label) THEN "stop_cancel" ELSE "stop_append")
    /\ UNCHANGED <<reshape, tracker, timerObjs, clock, call, locals, tags,
                   warned>>

\* lines 82-83: timer = self._timers.pop(label); timer.cancel()
stop_cancel(t) ==
    /\ pc[t] = "stop_cancel"
    /\ IF Has(timers, call[t].label)
       THEN /\ timerObjs' = cancel(timerObjs, timers[call[t].label])
            /\ timers' = Del(timers, call[t].label)
            /\ Goto(t, "stop_append")
       ELSE /\ Return(t, KeyError)
            /\ UNCHANGED <<timers, timerObjs>>
    /\ UNCHANGED <<reshape, active_segments, completed_segments, clock, call, locals,
                   tags, warned>>

\* the record assigned as the whole list instead of appended
stop_append_overwrite(t) ==
    /\ pc[t] = "stop_append"
    /\ completed_segments' = <<<<call[t].label, elapsed(clock, start_time[t])>>>>
    /\ Return(t, OK)
    /\ UNCHANGED <<reshape, active_segments, timers, timerObjs, clock, call, locals,
                   tags, warned>>

\* the record inserted at the front instead of appended
stop_append_front(t) ==
    /\ pc[t] = "stop_append"
    /\ completed_segments' =
           <<<<call[t].label, elapsed(clock, start_time[t])>>>> \o completed_segments
    /\ Return(t, OK)
    /\ UNCHANGED <<reshape, active_segments, timers, timerObjs, clock, call, locals,
                   tags, warned>>

\* line 84: self.completed_segments.append((label, time.time() - start_time))
stop_append(t) ==
    /\ pc[t] = "stop_append"
    /\ completed_segments' =
           Append(completed_segments, <<call[t].label, elapsed(clock, start_time[t])>>)
    /\ Return(t, OK)
    /\ UNCHANGED <<reshape, active_segments, timers, timerObjs, clock, call, locals,
                   tags, warned>>

\* ---------------------------------------------------------------- reset
\* reset without its test
reset_acts_always(label) == TRUE

\* line 91: the test that makes reset act
reset_acts(label) == Has(active_segments, label)

\* the "Resetting ..." warning raised as an exception
reset_call_raising(t, label) ==
    /\ pc[t] = "idle"
    /\ Enter(t, "reset", label)
    /\ IF reset_acts(label)
       THEN /\ reset_warnings' = reset_warnings + 1
            /\ Return(t, "UserWarning")
       ELSE /\ Return(t, OK)
            /\ UNCHANGED reset_warnings
    /\ UNCHANGED <<reshape, tracker, timerObjs, clock, locals, tags, long_warnings>>

\* lines 91-92: if label in self.active_segments: warnings.warn("Resetting ...")
\* A reset of a label that is not active returns here.
reset_call(t, label) ==
    /\ pc[t] = "idle"
    /\ Enter(t, "reset", label)
    /\ IF reset_acts(label)
       THEN /\ ngen < MaxGen
            /\ ngen' = ngen + 1
            /\ gen' = [gen EXCEPT ![t] = ngen + 1]
            /\ reset_warnings' = reset_warnings + 1
            /\ pc' = [pc EXCEPT ![t] = "reset_timer"]
            /\ res' = [res EXCEPT ![t] = [out |-> Pending, value |-> 0]]
       ELSE /\ Return(t, OK)
            /\ UNCHANGED <<gen, ngen, reset_warnings>>
    /\ UNCHANGED <<reshape, tracker, timerObjs, clock, start_time, generation, stamps,
                   long_warnings>>

\* line 94: if label in self._timers
reset_timer(t) ==
    /\ pc[t] = "reset_timer"
    /\ Goto(t, IF Has(timers, call[t].label) THEN "reset_cancel" ELSE "reset_time")
    /\ UNCHANGED <<reshape, tracker, timerObjs, clock, call, locals, tags,
                   warned>>

\* line 95: self._timers[label].cancel()
reset_cancel(t) ==
    /\ pc[t] = "reset_cancel"
    /\ IF Has(timers, call[t].label)
       THEN /\ timerObjs' = cancel(timerObjs, timers[call[t].label])
            /\ Goto(t, "reset_time")
       ELSE /\ Return(t, KeyError)
            /\ UNCHANGED timerObjs
    /\ UNCHANGED <<reshape, tracker, clock, call, locals, tags, warned>>

\* line 98: start_time = time.time()
reset_clock(t) ==
    /\ pc[t] = "reset_time"
    /\ start_time' = [start_time EXCEPT ![t] = clock]
    /\ stamps' = [stamps EXCEPT ![call[t].label] = Append(@, clock)]
    /\ Goto(t, "reset_set")
    /\ UNCHANGED <<reshape, tracker, timerObjs, clock, call, gen, generation, ngen,
                   warned>>

\* reset that does not store the new start time
reset_set_skipped(t) ==
    /\ pc[t] = "reset_set"
    /\ Goto(t, "reset_newtimer")
    /\ UNCHANGED <<reshape, tracker, timerObjs, clock, call, locals, tags, warned>>

\* line 99: self.active_segments[label] = start_time
reset_set(t) ==
    /\ pc[t] = "reset_set"
    /\ active_segments' = Put(active_segments, call[t].label, start_time[t])
    /\ generation' = Put(generation, call[t].label, gen[t])
    /\ Goto(t, "reset_newtimer")
    /\ UNCHANGED <<reshape, completed_segments, timers, timerObjs, clock, call, locals,
                   ngen, stamps, warned>>

\* lines 100-105: timer = threading.Timer(...); timer.start();
\*                self._timers[label] = timer
reset_newtimer(t) ==
    /\ pc[t] = "reset_newtimer"
    /\ timerObjs' = Put(timerObjs, gen[t], NewTimer(call[t].label, start_time[t]))
    /\ timers' = Put(timers, call[t].label, gen[t])
    /\ Return(t, OK)
    /\ UNCHANGED <<reshape, active_segments, completed_segments, clock, call, locals,
                   tags, warned>>

\* ------------------------------------------------------------ total_time
\* sum(duration for seg, duration in completed if keep(seg))
RECURSIVE SumAll(_)
SumAll(completed) ==
    IF completed = <<>> THEN 0
    ELSE completed[1][2] + SumAll(Tail(completed))

\* a loop over `labels` around the loop over the records, so that a label
\* listed twice is summed twice
RECURSIVE SumInPerListed(_, _)
SumInPerListed(completed, labels) ==
    LET RECURSIVE SumOne(_, _)
        SumOne(recs, label) ==
            IF recs = <<>> THEN 0
            ELSE (IF recs[1][1] = label THEN recs[1][2] ELSE 0)
                 + SumOne(Tail(recs), label)
    IN IF labels = <<>> THEN 0
       ELSE SumOne(completed, labels[1]) + SumInPerListed(completed, Tail(labels))

RECURSIVE SumIn(_, _)
SumIn(completed, labels) ==
    IF completed = <<>> THEN 0
    ELSE (IF completed[1][1] \in Range(labels) THEN completed[1][2] ELSE 0)
         + SumIn(Tail(completed), labels)

\* `labels = labels or []` in place of the test for None
total_time_none_is_empty(labels) ==
    SumIn(completed_segments, IF labels = None THEN <<>> ELSE labels[1])

\* lines 111-115
total_time(labels) ==
    IF labels = None
    THEN SumAll(completed_segments)
    ELSE SumIn(completed_segments, labels[1])

\* The `labels` arguments tried: None and every list of at most MaxArgLen labels.
LabelLists == UNION {[1..n -> Labels] : n \in 0..MaxArgLen}
Args == {None} \cup {Some(list) : list \in LabelLists}

\* a total_time that clears the records it has summed
total_time_call_consuming(t, labels) ==
    /\ pc[t] = "idle"
    /\ call' = [call EXCEPT ![t] = [op |-> "total_time", label |-> "", labels |-> labels]]
    /\ pc' = pc
    /\ res' = [res EXCEPT ![t] = [out |-> OK, value |-> total_time(labels)]]
    /\ completed_segments' = <<>>
    /\ UNCHANGED <<reshape, active_segments, timers, timerObjs, clock, locals, tags, warned>>

\* lines 107-115: def total_time(self, labels=None)
total_time_call(t, labels) ==
    /\ pc[t] = "idle"
    /\ call' = [call EXCEPT ![t] = [op |-> "total_time", label |-> "", labels |-> labels]]
    /\ pc' = pc
    /\ res' = [res EXCEPT ![t] = [out |-> OK, value |-> total_time(labels)]]
    /\ UNCHANGED <<reshape, tracker, timerObjs, clock, locals, tags, warned>>

\* ------------------------------------ ReshapeFeatureDistributionsStep
\* tabpfn/model/preprocessing.py is not part of the sources at hand; the step
\* is modelled by the shapes tests/test_preprocessing.py expects of it.
APPEND_TO_ORIGINAL_THRESHOLD == 500

\* append_to_original: True, False or "auto"
Settings == {"True", "False", "auto"}

\* "auto" taken as False
appends_auto_never(setting, n, at_threshold) == setting = "True"

\* Whether the original columns are kept next to the transformed ones.  With
\* "auto" they are kept below the threshold and dropped above it; nothing at
\* hand says which at the threshold itself (at_threshold).
appends(setting, n, at_threshold) ==
    IF setting = "auto"
    THEN IF n = APPEND_TO_ORIGINAL_THRESHOLD
         THEN at_threshold
         ELSE n < APPEND_TO_ORIGINAL_THRESHOLD
    ELSE setting = "True"

\* Xt, _ = step.fit_transform(X, categorical_features=[]): every feature is
\* transformed into one column, row by row, and the original columns are put
\* in front of the transformed ones when they are kept.
fit_transform ==
    /\ Xt = None
    /\ \E at_threshold \in BOOLEAN :
          Xt' = Some(<<X[1],
                       IF appends(append_to_original, X[2], at_threshold)
                       THEN X[2] + X[2]
                       ELSE X[2]>>)
    /\ UNCHANGED <<append_to_original, X, tracker, timerObjs, clock, pc, call,
                   res, locals, tags, warned>>

\* ------------------------------------------------- the timer's own thread
\* threading.Timer.run: self.finished.wait(self.interval) has timed out after
\* TIME_WARNING_CPU seconds and self.finished is not set, so
\* self.function(*self.args) is called.
timer_fire(i) ==
    /\ i \in DOMAIN timerObjs
    /\ timerObjs[i].st = "waiting"
    /\ timerObjs' = [timerObjs EXCEPT ![i].st = "fired"]
    /\ UNCHANGED <<reshape, tracker, clock, pc, call, res, locals, tags, warned>>

\* line 42, left operand: label in self.active_segments
warn_member(i) ==
    /\ i \in DOMAIN timerObjs
    /\ timerObjs[i].st = "fired"
    /\ timerObjs' =
           IF Has(active_segments, timerObjs[i].label)
           THEN [timerObjs EXCEPT ![i].st = "lookup"]
           ELSE [timerObjs EXCEPT ![i] = Ended(@, "done")]
    /\ UNCHANGED <<reshape, tracker, clock, pc, call, res, locals, tags, warned>>

\* a guard that never passes
same_start_never(label, started) == FALSE

\* line 42, right operand: the stored start time is the one the timer was given
same_start(label, started) == active_segments[label] = started

\* line 42, right operand, and lines 43-49: self.active_segments[label] ==
\* start_time, then warnings.warn(...).  The subscript raises KeyError when the
\* label has been removed since the membership test.
warn_lookup(i) ==
    /\ i \in DOMAIN timerObjs
    /\ timerObjs[i].st = "lookup"
    /\ IF ~Has(active_segments, timerObjs[i].label)
       THEN /\ timerObjs' = [timerObjs EXCEPT ![i] = Ended(@, KeyError)]
            /\ UNCHANGED long_warnings
       ELSE /\ timerObjs' = [timerObjs EXCEPT ![i] = Ended(@, "done")]
            /\ long_warnings' =
                   IF same_start(timerObjs[i].label, timerObjs[i].start_time)
                   THEN long_warnings \cup
                            {[timer |-> i, label |-> timerObjs[i].label,
                              about |-> generation[timerObjs[i].label]]}
                   ELSE long_warnings
    /\ UNCHANGED <<reshape, tracker, clock, pc, call, res, locals, tags, reset_warnings>>

\* ------------------------------------------------------------------ time
\* The reading of time.time() advances.  Only a thread about to read the clock
\* (lines 59, 84, 98) can tell when it advanced, so it advances then.
Tick ==
    /\ clock < MaxClock
    /\ \E t \in Threads : pc[t] \in {"start_time", "stop_append", "reset_time"}
    /\ clock' = clock + 1
    /\ UNCHANGED <<reshape, tracker, timerObjs, pc, call, res, locals, tags,
                   warned>>

\* ------------------------------------------------------------ next state
StartStep(t) ==
    \/ start_clock(t)
    \/ start_set(t)
    \/ start_timer(t)

StopStep(t) ==
    \/ stop_pop(t)
    \/ stop_timer(t)
    \/ stop_cancel(t)
    \/ stop_append(t)

ResetStep(t) ==
    \/ reset_timer(t)
    \/ reset_cancel(t)
    \/ reset_clock(t)
    \/ reset_set(t)
    \/ reset_newtimer(t)

\* A caller thread calls start, stop or reset, or takes the next step of the
\* call it is in.
CallerStep(t) ==
    \/ \E label \in Labels : start_call(t, label)
    \/ \E label \in Labels : stop_call(t, label)
    \/ \E label \in Labels : reset_call(t, label)
    \/ StartStep(t)
    \/ StopStep(t)
    \/ ResetStep(t)

\* A timer is named by the tag of the start or reset that created it.
TimerIds == 1..MaxGen

TimerStep(i) ==
    \/ timer_fire(i)
    \/ warn_member(i)
    \/ warn_lookup(i)

\* One caller thread; the timers run on their own threads.
Next ==
    \/ CallerStep(1)
    \/ \E i \in TimerIds : TimerStep(i)
    \/ Tick

Spec == Init /\ [][Next]_vars

\* One caller thread working on one label, under fair scheduling: every
\* thread that can run does run.  A timer's wait ends when its interval has
\* elapsed (threading.Timer.run) and its callback runs to its end; a caller
\* thread inside start, stop or reset reaches its return.  Nothing makes a
\* caller call again.
FairNext ==
    \/ start_call(1, "a")
    \/ stop_call(1, "a")
    \/ reset_call(1, "a")
    \/ StartStep(1)
    \/ StopStep(1)
    \/ ResetStep(1)
    \/ \E i \in TimerIds : TimerStep(i)
    \/ Tick

FairSpec ==
    /\ Init /\ [][FairNext]_vars
    /\ \A i \in TimerIds : WF_vars(TimerStep(i))
    /\ WF_vars(StartStep(1) \/ StopStep(1) \/ ResetStep(1))

\* Each caller thread starts and stops its own label, concurrently with the
\* other.
OwnLabel(t) == IF t = 1 THEN "a" ELSE "b"

DistinctNext ==
    \/ \E t \in Threads :
           \/ start_call(t, OwnLabel(t))
           \/ stop_call(t, OwnLabel(t))
           \/ StartStep(t)
           \/ StopStep(t)
    \/ \E i \in TimerIds : TimerStep(i)
    \/ Tick

DistinctSpec == Init /\ [][DistinctNext]_vars

\* Two caller threads start and stop the same label, concurrently.
RaceNext ==
    \/ \E t \in Threads :
           \/ start_call(t, "a")
           \/ stop_call(t, "a")
           \/ StartStep(t)
           \/ StopStep(t)
    \/ \E i \in TimerIds : TimerStep(i)
    \/ Tick

RaceSpec == Init /\ [][RaceNext]_vars

\* ------------------------------------------------- total_time on its own
\* total_time reads completed_segments only, so it is applied to every
\* completed sequence of at most MaxRecords records: the state after the
\* recorded segments were started and stopped one after another (each timer
\* cancelled while waiting) and the labels of `active` were started.
BoundedSeq(S, n) == UNION {[1..k -> S] : k \in 0..n}

ActiveOrder(S) == IF S = Labels THEN <<"a", "b">> ELSE IF S = {} THEN <<>>
                  ELSE <<CHOOSE l \in S : TRUE>>

TotalInit ==
    /\ NoReshape
    /\ completed_segments \in BoundedSeq(Labels \X (0..MaxClock), MaxRecords)
    /\ active_segments \in UNION {[S -> 0..MaxClock] : S \in SUBSET Labels}
    /\ clock = MaxClock + SumAll(completed_segments)
    /\ LET k == Len(completed_segments)
           order == ActiveOrder(DOMAIN active_segments)
           idOf == [l \in DOMAIN active_segments |->
                       k + (CHOOSE j \in DOMAIN order : order[j] = l)]
       IN /\ timers = idOf
          /\ generation = idOf
          /\ ngen = k + Len(order)
          /\ timerObjs =
                 [i \in 1..(k + Len(order)) |->
                     IF i <= k
                     THEN Ended(NewTimer(completed_segments[i][1], 0), "done")
                     ELSE NewTimer(order[i - k], active_segments[order[i - k]])]
    /\ pc = [t \in Threads |-> "idle"]
    /\ call = [t \in Threads |-> [op |-> "none", label |-> "", labels |-> None]]
    /\ res = [t \in Threads |-> [out |-> Pending, value |-> 0]]
    /\ start_time = [t \in Threads |-> 0]
    /\ gen = [t \in Threads |-> 0]
    /\ stamps = [l \in Labels |-> <<>>]
    /\ long_warnings = {}
    /\ reset_warnings = 0

TotalNext == \E labels \in Args : total_time_call(1, labels)

TotalSpec == TotalInit /\ [][TotalNext]_vars

\* --------------------------------------------- fit_transform on its own
\* A step built with each setting, handed an input of each shape; the tracker
\* is not in use.
ReshapeInit ==
    /\ append_to_original \in Settings
    /\ X \in (1..MaxRows) \X (1..MaxFeatures)
    /\ Xt = None
    /\ active_segments = Empty
    /\ completed_segments = <<>>
    /\ timers = Empty
    /\ timerObjs = Empty
    /\ clock = 0
    /\ pc = [t \in Threads |-> "idle"]
    /\ call = [t \in Threads |-> [op |-> "none", label |-> "", labels |-> None]]
    /\ res = [t \in Threads |-> [out |-> Pending, value |-> 0]]
    /\ start_time = [t \in Threads |-> 0]
    /\ gen = [t \in Threads |-> 0]
    /\ generation = Empty
    /\ ngen = 0
    /\ stamps = [l \in Labels |-> <<>>]
    /\ long_warnings = {}
    /\ reset_warnings = 0

ReshapeNext == fit_transform

ReshapeSpec == ReshapeInit /\ [][ReshapeNext]_vars

\* =================================================================== claims
Last(seq) == seq[Len(seq)]

\* C1: a start(L) made while L is active ends with the "already active"
\* RuntimeError and changes nothing; a start(L) that succeeds leaves L active,
\* and only stop(L) makes L inactive again (no reset and no operation on
\* another label does), so a second start(L) without a stop(L) in between
\* fails.
C1_StartOnActiveFails ==
    [][\A t \in Threads, L \in Labels :
        /\ (start_call(t, L) /\ Has(active_segments, L))
              => /\ res'[t].out = AlreadyActive
                 /\ pc'[t] = "idle"
                 /\ UNCHANGED <<tracker, timerObjs, tags, warned>>
        /\ (pc[t] = "start_timer" /\ pc'[t] = "idle" /\ call[t].label = L)
              => /\ res'[t].out = OK
                 /\ Has(active_segments', L)
        /\ (Has(active_segments, L) /\ ~Has(active_segments', L))
              => \E u \in Threads :
                    pc[u] = "stop_pop" /\ call[u].op = "stop" /\ call[u].label = L
      ]_vars

\* start(L) was rejected with L active, after a reset(L) of the active label.
C1_Witness ==
    \E t \in Threads :
        /\ pc[t] = "idle"
        /\ call[t].op = "start"
        /\ res[t].out = AlreadyActive
        /\ Has(active_segments, call[t].label)
        /\ reset_warnings > 0

\* C2: a stop(L) made while L is not active ends with the "not active"
\* RuntimeError, appends no record and changes nothing; only start(L) makes L
\* active (no reset of the inactive label and no operation on another label
\* does), and a stop(L) that succeeds leaves L inactive.
C2_StopOnInactiveFails ==
    [][\A t \in Threads, L \in Labels :
        /\ (stop_call(t, L) /\ ~Has(active_segments, L))
              => /\ res'[t].out = NotActive
                 /\ pc'[t] = "idle"
                 /\ UNCHANGED <<tracker, timerObjs, tags, warned>>
        /\ (~Has(active_segments, L) /\ Has(active_segments', L))
              => \E u \in Threads :
                    pc[u] = "start_set" /\ call[u].op = "start" /\ call[u].label = L
        /\ (pc[t] = "stop_append" /\ pc'[t] = "idle" /\ call[t].label = L)
              => ~Has(active_segments', L)
      ]_vars

\* stop(L) was rejected for a label that had been started and stopped before.
C2_Witness ==
    \E t \in Threads :
        /\ pc[t] = "idle"
        /\ call[t].op = "stop"
        /\ res[t].out = NotActive
        /\ ~Has(active_segments, call[t].label)
        /\ \E i \in DOMAIN completed_segments :
              completed_segments[i][1] = call[t].label

\* C3: a successful stop(L) removes L from the active segments when it pops the
\* stored start time, appends exactly one record <<L, d>> with d = the reading
\* of time.time() taken in stop minus that start time, and nothing else ever
\* changes the completed sequence; every recorded d is non-negative.
C3_StopRecordsElapsed ==
    /\ [](\A i \in DOMAIN completed_segments : completed_segments[i][2] >= 0)
    /\ [][\A t \in Threads :
            /\ (pc[t] = "stop_pop" /\ pc'[t] = "stop_timer")
                  => /\ Has(active_segments, call[t].label)
                     /\ start_time'[t] = active_segments[call[t].label]
                     /\ ~Has(active_segments', call[t].label)
                     /\ completed_segments' = completed_segments
            /\ (pc[t] = "stop_append" /\ pc'[t] = "idle")
                  => /\ completed_segments' =
                            Append(completed_segments,
                                   <<call[t].label, clock - start_time[t]>>)
                     /\ res'[t].out = OK
            /\ (completed_segments' # completed_segments)
                  => \E u \in Threads :
                        /\ pc[u] = "stop_append"
                        /\ pc'[u] = "idle"
                        /\ Len(completed_segments') = Len(completed_segments) + 1
       ]_vars

\* A stop succeeded and recorded a positive duration.
C3_Witness ==
    \E t \in Threads :
        /\ pc[t] = "idle"
        /\ call[t].op = "stop"
        /\ res[t].out = OK
        /\ completed_segments # <<>>
        /\ Last(completed_segments)[1] = call[t].label
        /\ Last(completed_segments)[2] > 0

\* C6: every step of a reset(L) of an active label leaves the completed
\* sequence as it is and L active; when the reset returns, the stored start
\* time is the reading it took, and the record the next stop(L) appends has
\* d = the reading in stop minus the reading of the most recent reset(L) (or of
\* the start, when there was no reset).
C6_ResetRestamps ==
    [][\A t \in Threads :
        /\ (call[t].op = "reset" /\ pc[t] # "idle" /\ pc'[t] # pc[t])
              => /\ completed_segments' = completed_segments
                 /\ Has(active_segments', call[t].label)
        /\ \A L \in Labels :
              (reset_call(t, L) /\ Has(active_segments, L))
                 => /\ completed_segments' = completed_segments
                    /\ Has(active_segments', L)
                    /\ pc'[t] # "idle"
        /\ (pc[t] = "reset_newtimer" /\ pc'[t] = "idle")
              => /\ res'[t].out = OK
                 /\ active_segments'[call[t].label] = Last(stamps[call[t].label])
        /\ (pc[t] = "stop_append" /\ pc'[t] = "idle")
              => Last(completed_segments') =
                    <<call[t].label, clock - Last(stamps[call[t].label])>>
      ]_vars

\* stop(L) succeeded after a reset(L) that read a later time than the start.
C6_Witness ==
    \E t \in Threads :
        /\ pc[t] = "idle"
        /\ call[t].op = "stop"
        /\ res[t].out = OK
        /\ Len(stamps[call[t].label]) >= 2
        /\ stamps[call[t].label][1] < Last(stamps[call[t].label])
        /\ completed_segments # <<>>
        /\ Last(completed_segments)[1] = call[t].label

\* C7: a reset(L) made while L is not active returns normally, emits no
\* warning, and leaves the active segments, the timer map, the timers, the
\* completed sequence and with it the total_time results (total_time(),
\* total_time([]), total_time([L]), total_time of every label) unchanged.
C7_ResetInactiveNoop ==
    [][\A t \in Threads, L \in Labels :
        (reset_call(t, L) /\ ~Has(active_segments, L))
           => /\ res'[t].out = OK
              /\ pc'[t] = "idle"
              /\ UNCHANGED <<tracker, timerObjs, tags, warned>>
              /\ \A labels \in {None, Some(<<>>), Some(<<L>>), Some(<<"a", "b">>)} :
                    total_time(labels)' = total_time(labels)
      ]_vars

\* reset(L) returned for an inactive L that has a completed record; no reset
\* warning was ever emitted.
C7_Witness ==
    \E t \in Threads :
        /\ pc[t] = "idle"
        /\ call[t].op = "reset"
        /\ res[t].out = OK
        /\ ~Has(active_segments, call[t].label)
        /\ reset_warnings = 0
        /\ \E i \in DOMAIN completed_segments :
              completed_segments[i][1] = call[t].label

\* The sum of the durations of the records at the indices I.
RECURSIVE SumOver(_)
SumOver(I) ==
    IF I = {} THEN 0
    ELSE LET i == CHOOSE j \in I : TRUE
         IN completed_segments[i][2] + SumOver(I \ {i})

\* C4: total_time() without argument returns the sum of the durations of all
\* records of the completed sequence, every record of a repeated label
\* counted, and 0 when the sequence is empty.
C4_TotalIsSumOfAll ==
    \A t \in Threads :
        (call[t].op = "total_time" /\ call[t].labels = None)
           => /\ res[t].out = OK
              /\ res[t].value = SumOver(DOMAIN completed_segments)
              /\ (completed_segments = <<>> => res[t].value = 0)

\* total_time() returned 3 for three records of duration 1, the first and the
\* third of the same label.
C4_Witness ==
    \E t \in Threads :
        /\ call[t].op = "total_time"
        /\ call[t].labels = None
        /\ Len(completed_segments) = 3
        /\ completed_segments[1][1] = completed_segments[3][1]
        /\ \A i \in 1..3 : completed_segments[i][2] = 1
        /\ res[t].value = 3

\* C5: total_time(labels) returns the sum of the durations of exactly the
\* records whose label is a member of labels: a label without a record adds
\* 0 and a label listed twice is not counted twice.
C5_TotalOfLabels ==
    \A t \in Threads :
        (call[t].op = "total_time" /\ call[t].labels # None)
           => /\ res[t].out = OK
              /\ res[t].value =
                    SumOver({i \in DOMAIN completed_segments :
                                completed_segments[i][1] \in Range(call[t].labels[1])})

\* total_time(["a", "a"]) returned d1 + d3 = 2 after the records a, b, a of
\* duration 1 each.
C5_Witness ==
    \E t \in Threads :
        /\ call[t].op = "total_time"
        /\ call[t].labels = Some(<<"a", "a">>)
        /\ completed_segments = <<<<"a", 1>>, <<"b", 1>>, <<"a", 1>>>>
        /\ res[t].value = 2

RecordsOf(L) ==
    Cardinality({i \in DOMAIN completed_segments : completed_segments[i][1] = L})

\* Timers created for L: one by each start(L) that succeeded.
StartsOf(L) == Cardinality({i \in DOMAIN timerObjs : timerObjs[i].label = L})

InFlight(op, L, places) ==
    Cardinality({t \in Threads :
                    call[t].op = op /\ call[t].label = L /\ pc[t] \in places})

Quiescent == \A t \in Threads : pc[t] = "idle"

\* C8: with each thread starting and stopping its own label, concurrently,
\* no call ends in a KeyError and no record is lost or duplicated: in every
\* state, each start(L) that has run is accounted for by exactly one record of
\* L, or by L being active, or by a stop(L) that has popped L and not yet
\* appended.  So once every label has been started once and stopped, the
\* completed sequence holds exactly one record per label and the active
\* segments and the timer map are empty.
C8_DistinctLabelsAllRecorded ==
    /\ \A t \in Threads : res[t].out # KeyError
    /\ \A L \in Labels :
          RecordsOf(L) + (IF Has(active_segments, L) THEN 1 ELSE 0)
                       + InFlight("stop", L, {"stop_timer", "stop_cancel", "stop_append"})
             = StartsOf(L) + InFlight("start", L, {"start_timer"})
    /\ Quiescent => DOMAIN timers = DOMAIN active_segments
    /\ (Quiescent /\ active_segments = Empty /\ \A L \in Labels : StartsOf(L) = 1)
          => /\ Len(completed_segments) = Cardinality(Labels)
             /\ \A L \in Labels : RecordsOf(L) = 1
             /\ timers = Empty

\* Both threads are inside stop at once, each about to append its record.
C8_Witness ==
    /\ pc[1] = "stop_append"
    /\ pc[2] = "stop_append"
    /\ call[1].label # call[2].label

\* C9: no incarnation of a label gets the long-running warning twice, and no
\* incarnation has the warning while its own timer's interval has not elapsed
\* (its timer is still waiting, so a stop can still end it before the
\* threshold).
C9_WarningOncePerIncarnation ==
    /\ \A w1, w2 \in long_warnings : w1.about = w2.about => w1 = w2
    /\ \A w \in long_warnings :
          Has(timerObjs, w.about) => timerObjs[w.about].st # "waiting"

\* C10: every long-running warning is about the incarnation whose start
\* scheduled the timer that emitted it.
C10_NoStaleWarning ==
    \A w \in long_warnings : w.about = w.timer

\* The incarnation tagged g is the current one of its label.
Current(g) == \E L \in DOMAIN generation : generation[L] = g

\* The timer scheduled for incarnation g has emitted the warning about it.
WarnedByOwn(g) == \E w \in long_warnings : w.timer = g /\ w.about = g

C12_TotalTimePureRead ==
    /\ [](\A t \in Threads :
             call[t].op = "total_time"
                => res[t].value =
                      SumOver({i \in DOMAIN completed_segments :
                                  \/ call[t].labels = None
                                  \/ completed_segments[i][1]
                                        \in Range(call[t].labels[1])}))
    /\ [][\A t \in Threads :
            (call'[t].op = "total_time" /\ <<call[t], res[t]>>' # <<call[t], res[t]>>)
               => /\ UNCHANGED <<tracker, timerObjs, clock>>
                  /\ call'[t] = call[t] => res'[t] = res[t]
       ]_vars

\* total_time(["a"]) returned 0 while "a" was active, started before the
\* current reading of the clock, and had no record; "b" had one of duration 1.
C12_Witness ==
    \E t \in Threads :
        /\ call[t].op = "total_time"
        /\ call[t].labels = Some(<<"a">>)
        /\ res[t].value = 0
        /\ Has(active_segments, "a")
        /\ active_segments["a"] < clock
        /\ completed_segments = <<<<"b", 1>>>>

\* C13: fit_transform on r rows and n features, no categorical feature,
\* returns r rows, and 2n columns when append_to_original is True, n columns
\* when it is False, and with "auto" 2n columns when n is below
\* APPEND_TO_ORIGINAL_THRESHOLD and n columns when n is above it.
C13_ReshapeColumns ==
    Xt # None =>
        LET rows == Xt[1][1]
            cols == Xt[1][2]
            n == X[2]
        IN /\ rows = X[1]
           /\ append_to_original = "True" => cols = 2 * n
           /\ append_to_original = "False" => cols = n
           /\ (append_to_original = "auto" /\ n < APPEND_TO_ORIGINAL_THRESHOLD)
                 => cols = 2 * n
           /\ (append_to_original = "auto" /\ n > APPEND_TO_ORIGINAL_THRESHOLD)
                 => cols = n

\* "auto" on 600 features returned 600 columns.
C13_Witness ==
    /\ append_to_original = "auto"
    /\ X[2] = 600
    /\ Xt = Some(<<X[1], 600>>)

\* The timer i is referenced by the timer map.
Referenced(i) == \E L \in DOMAIN timers : timers[L] = i

C15_GuardAtomic ==
    \A i \in DOMAIN timerObjs : timerObjs[i].st # KeyError

\* Timers of L whose `finished` event is not set.
Uncancelled(L) ==
    {i \in DOMAIN timerObjs : timerObjs[i].label = L /\ ~timerObjs[i].finished}

\* C16: of two start(L) calls made concurrently on an inactive L only one
\* succeeds: no two threads have both returned normally from start(L) with no
\* stop having completed, at most one timer of L has its `finished` event
\* unset, and that timer is the one the timer map references.
C16_ConcurrentStartExclusive ==
    /\ ~(/\ completed_segments = <<>>
         /\ \A t \in Threads :
               pc[t] = "idle" /\ call[t] = call[1] /\ call[t].op = "start"
                              /\ res[t].out = OK)
    /\ \A L \in Labels :
          /\ Cardinality(Uncancelled(L)) <= 1
          /\ \A i \in Uncancelled(L) : Referenced(i)

\* C17: of two stop(L) calls made concurrently on an active L, the one that
\* does not record the segment ends with the "not active" RuntimeError: no
\* stop ends in any other failure, and there are no more records than starts.
C17_ConcurrentStopExclusive ==
    /\ \A t \in Threads :
          call[t].op = "stop" => res[t].out \in {Pending, OK, NotActive}
    /\ Len(completed_segments) <= ngen

ResetPlaces ==
    {"reset_timer", "reset_cancel", "reset_time", "reset_set", "reset_newtimer"}

\* C18: no step of a timer's thread, warning or not, changes the active
\* segments, the timer map, the completed sequence or any caller's position
\* or result; a reset that has emitted its warning goes on, reaches its
\* return (the threads being scheduled fairly), and leaves only by returning
\* normally with the start time re-stamped and a new timer scheduled and
\* registered.
C18_WarningsAreAdvisory ==
    /\ \A t \in Threads :
          (pc[t] \in ResetPlaces)
             ~> (pc[t] = "idle" /\ call[t].op = "reset" /\ res[t].out = OK)
    /\ [][/\ \A i \in TimerIds :
               TimerStep(i) => UNCHANGED <<tracker, pc, call, res, locals>>
          /\ (reset_warnings' # reset_warnings)
                => \E u \in Threads : pc[u] = "idle" /\ pc'[u] = "reset_timer"
          /\ \A t \in Threads :
               /\ (pc[t] \in ResetPlaces /\ pc'[t] \notin ResetPlaces)
                     => /\ pc[t] = "reset_newtimer"
                        /\ pc'[t] = "idle"
                        /\ res'[t].out = OK
                        /\ active_segments'[call[t].label] = start_time[t]
                        /\ start_time[t] = Last(stamps[call[t].label])
                        /\ timers'[call[t].label] = gen[t]
                        /\ timerObjs'[gen[t]] = NewTimer(call[t].label, start_time[t])
       ]_vars

\* A reset that warned has returned, and a timer has emitted the long-running
\* warning.
C18_Witness ==
    \E t \in Threads :
        /\ pc[t] = "idle"
        /\ call[t].op = "reset"
        /\ res[t].out = OK
        /\ reset_warnings > 0
        /\ long_warnings # {}

\* C19: the completed sequence only grows at its end: a step that changes it
\* is the return of a successful stop(L) and keeps every earlier record in
\* place, adding one record of L after them; every stop that returns normally
\* adds exactly one record and a call that fails adds none, so the length is
\* the number of successful stops and the records are in the order in which
\* the stops completed.
C19_CompletedAppendOnly ==
    [][/\ (completed_segments' # completed_segments)
            => /\ Len(completed_segments') = Len(completed_segments) + 1
               /\ SubSeq(completed_segments', 1, Len(completed_segments))
                     = completed_segments
               /\ \E t \in Threads :
                     /\ pc[t] = "stop_append"
                     /\ pc'[t] = "idle"
                     /\ res'[t].out = OK
                     /\ Last(completed_segments')[1] = call[t].label
       /\ \A t \in Threads :
            /\ (call[t].op = "stop" /\ pc[t] # "idle" /\ pc'[t] = "idle"
                   /\ res'[t].out = OK)
                  => Len(completed_segments') = Len(completed_segments) + 1
            /\ (pc'[t] = "idle" /\ res'[t] # res[t] /\ res'[t].out # OK)
                  => completed_segments' = completed_segments
      ]_vars

\* "a" was started before "b" and stopped after it: the record of "b" comes
\* first.
C19_Witness ==
    /\ Quiescent
    /\ Has(timerObjs, 2)
    /\ timerObjs[1].label = "a"
    /\ timerObjs[2].label = "b"
    /\ Len(completed_segments) = 2
    /\ completed_segments[1][1] = "b"
    /\ completed_segments[2][1] = "a"

\* C20: a call that ends with the "already active" or the "not active"
\* RuntimeError leaves the active segments with their start times, the timer
\* map, the timers and the completed sequence as they were; so the start time
\* a later stop(L) pops is still the reading taken by the start (or the last
\* reset) of L, and its record measures from there.
C20_RejectedCallChangesNothing ==
    [][\A t \in Threads :
        /\ (/\ res'[t].out \in {AlreadyActive, NotActive}
            /\ (res'[t] # res[t] \/ call'[t] # call[t]))
              => /\ UNCHANGED <<tracker, timerObjs, clock>>
                 /\ pc[t] = "idle"
                 /\ pc'[t] = "idle"
                 /\ (res'[t].out = AlreadyActive)
                       <=> (call'[t].op = "start"
                              /\ Has(active_segments, call'[t].label))
                 /\ (res'[t].out = NotActive)
                       <=> (call'[t].op = "stop"
                              /\ ~Has(active_segments, call'[t].label))
        /\ (pc[t] = "stop_pop" /\ pc'[t] = "stop_timer")
              => start_time'[t] = Last(stamps[call[t].label])
        /\ (pc[t] = "stop_append" /\ pc'[t] = "idle")
              => Last(completed_segments')[2] = clock - start_time[t]
      ]_vars

\* start(L) has just been rejected: L is still active with the start time its
\* start read, earlier than the current reading, and its timer is still
\* waiting and registered.
C20_Witness ==
    \E t \in Threads :
        /\ pc[t] = "idle"
        /\ call[t].op = "start"
        /\ res[t].out = AlreadyActive
        /\ Has(active_segments, call[t].label)
        /\ active_segments[call[t].label] = stamps[call[t].label][1]
        /\ active_segments[call[t].label] < clock
        /\ Has(timers, call[t].label)
        /\ timerObjs[timers[call[t].label]].st = "waiting"

====
